---- MODULE Spec2Model ----
(***************************************************************************)
(* ZIP 32 hardened-only key derivation (crate zip32): the generic          *)
(* framework of hardened_only.rs, its ad-hoc and registered                *)
(* instantiations, and the primitive index types of lib.rs.                *)
(*                                                                         *)
(* Byte strings are sequences of items.  An item is either n copies of a   *)
(* concrete byte, Run(b, n), or the bytes lo..hi-1 of the 64-byte output   *)
(* of a hash invocation, Blk(t, lo, hi), where t records the invocation    *)
(* (function, domain, key, input).  BLAKE2b and PRF^expand are thereby     *)
(* uninterpreted: two outputs are equal exactly when the invocations are.  *)
(* A u32 is kept at its width as two 16-bit limbs [hi, lo].                *)
(***************************************************************************)
EXTENDS Integers, Sequences, FiniteSets, TLC

VARIABLES op, arg, res, node, origin, dindex, dindex_origin

vars == <<op, arg, res, node, origin, dindex, dindex_origin>>

(* ------------------------------ bounds --------------------------------- *)

MaxPathLen == 2
MaxTagLen == 1
MaxChild == 1
MaxIncrements == 258

(* ---------------------------- byte strings ----------------------------- *)

\* n copies of the byte b
Run(b, n) == [h |-> <<>>, byte |-> b, lo |-> 0, hi |-> n]

Lit(b) == Run(b, 1)

\* bytes lo .. hi-1 of the output of the hash invocation t
Blk(t, lo, hi) == [h |-> <<t>>, byte |-> 0, lo |-> lo, hi |-> hi]

ItemLen(x) == x.hi - x.lo

RECURSIVE ByteLen(_)
ByteLen(bs) == IF bs = <<>> THEN 0 ELSE ItemLen(Head(bs)) + ByteLen(Tail(bs))

\* y continues x: the same byte again, or the next bytes of the same output
Adjacent(x, y) ==
    /\ x.h = y.h
    /\ IF x.h = <<>> THEN x.byte = y.byte ELSE x.hi = y.lo

Front(s) == SubSeq(s, 1, Len(s) - 1)

Last(s) == s[Len(s)]

\* a || b, kept in the one form in which no item continues the item before
Cat(a, b) ==
    IF a # <<>> /\ b # <<>> /\ Adjacent(Last(a), Head(b))
    THEN Front(a) \o <<[Last(a) EXCEPT !.hi = @ + ItemLen(Head(b))]>>
                  \o Tail(b)
    ELSE a \o b

RECURSIVE CatAll(_)
CatAll(parts) ==
    IF parts = <<>> THEN <<>> ELSE Cat(CatAll(Front(parts)), Last(parts))

RECURSIVE TakeBytes(_, _)
TakeBytes(bs, n) ==
    IF n = 0 \/ bs = <<>> THEN <<>>
    ELSE LET x == Head(bs) IN
         IF ItemLen(x) <= n
         THEN <<x>> \o TakeBytes(Tail(bs), n - ItemLen(x))
         ELSE <<[x EXCEPT !.hi = x.lo + n]>>

RECURSIVE DropBytes(_, _)
DropBytes(bs, n) ==
    IF n = 0 \/ bs = <<>> THEN bs
    ELSE LET x == Head(bs) IN
         IF ItemLen(x) <= n
         THEN DropBytes(Tail(bs), n - ItemLen(x))
         ELSE <<IF x.h = <<>> THEN [x EXCEPT !.hi = @ - n]
                              ELSE [x EXCEPT !.lo = @ + n]>> \o Tail(bs)

split_at(bs, n) == <<TakeBytes(bs, n), DropBytes(bs, n)>>

Bytes(n, b) == IF n = 0 THEN <<>> ELSE <<Run(b, n)>>

RECURSIVE FromBytes(_)
FromBytes(values) ==
    IF values = <<>> THEN <<>>
    ELSE Cat(FromBytes(Front(values)), <<Lit(Last(values))>>)

(* -------------------------------- u32 ---------------------------------- *)

U32(hi, lo) == [hi |-> hi, lo |-> lo]

U32Lt(a, b) == a.hi < b.hi \/ (a.hi = b.hi /\ a.lo < b.lo)

U32WrappingAdd(a, b) ==
    LET l == a.lo + b.lo
        c == l \div 65536
    IN  U32((a.hi + b.hi + c) % 65536, l % 65536)

ONE_SHL_31 == U32(32768, 0)

u32_from_u16(z) == U32(0, z)

to_le_bytes(i) ==
    FromBytes(<<i.lo % 256, i.lo \div 256, i.hi % 256, i.hi \div 256>>)

(* --------------------------- lib.rs: ChildIndex ------------------------ *)

NoIndex == U32(0, 0)

\* mutant: the comparison excludes 2^31 itself
from_index_Strict(i) ==
    IF U32Lt(ONE_SHL_31, i)
    THEN [kind |-> "Some", idx |-> i]
    ELSE [kind |-> "None", idx |-> NoIndex]

from_index(i) ==
    IF ~U32Lt(i, ONE_SHL_31)
    THEN [kind |-> "Some", idx |-> i]
    ELSE [kind |-> "None", idx |-> NoIndex]

\* mutant: the assertion is missing and the addition wraps
hardened_NoAssert(value) ==
    [kind |-> "Ok", idx |-> U32WrappingAdd(value, ONE_SHL_31)]

hardened(value) ==
    IF ~U32Lt(value, ONE_SHL_31)
    THEN [kind |-> "panic", idx |-> NoIndex]
    ELSE [kind |-> "Ok", idx |-> U32WrappingAdd(value, ONE_SHL_31)]

(* --------------------------- lib.rs: AccountId ------------------------- *)

\* mutant: 2^31 itself is accepted
AccountId_try_from_Inclusive(id) ==
    IF ~U32Lt(ONE_SHL_31, id)
    THEN [kind |-> "Ok", idx |-> id]
    ELSE [kind |-> "Err", idx |-> NoIndex]

\* impl TryFrom<u32> for AccountId
AccountId_try_from(id) ==
    IF U32Lt(id, ONE_SHL_31)
    THEN [kind |-> "Ok", idx |-> id]
    ELSE [kind |-> "Err", idx |-> NoIndex]

\* impl From<AccountId> for u32
u32_from_AccountId(id) == id

\* impl From<AccountId> for ChildIndex
ChildIndex_from_AccountId(id) == hardened(id)

index(c) == c

(* ----------------------- lib.rs: DiversifierIndex --------------------- *)
(* A DiversifierIndex is its 11 bytes; byte k of the source is element     *)
(* k + 1 of the sequence.                                                  *)

NoDi == <<>>

\* DiversifierIndex::new
DiversifierIndex_new == [k \in 1..11 |-> 0]

\* j.to_le_bytes() as byte values
u32_le_values(j) ==
    <<j.lo % 256, j.lo \div 256, j.hi % 256, j.hi \div 256>>

\* di_from!(u32)
DiversifierIndex_from_u32(j) ==
    [k \in 1..11 |-> IF k <= 4 THEN u32_le_values(j)[k] ELSE 0]

\* impl From<[u8; 11]> for DiversifierIndex
DiversifierIndex_from_array(j_bytes) == j_bytes

\* u128::from_le_bytes as its 16 bytes, then the conversion to u32, which
\* fails when a byte above the fourth is set
u128_try_into_u32(u128_bytes) ==
    IF \A k \in 5..16 : u128_bytes[k] = 0
    THEN [kind |-> "Ok",
          v |-> U32(u128_bytes[3] + 256 * u128_bytes[4],
                    u128_bytes[1] + 256 * u128_bytes[2])]
    ELSE [kind |-> "Err", v |-> NoIndex]

\* mutant: the value is truncated to its low 32 bits
u32_try_from_DiversifierIndex_Truncating(di) ==
    [kind |-> "Ok", v |-> U32(di[3] + 256 * di[4], di[1] + 256 * di[2])]

\* impl TryFrom<DiversifierIndex> for u32
u32_try_from_DiversifierIndex(di) ==
    u128_try_into_u32([k \in 1..16 |-> IF k <= 11 THEN di[k] ELSE 0])

\* the loop of increment from byte k on: the byte is incremented with
\* wrap-around and written back before it is tested
RECURSIVE increment_loop(_, _)
increment_loop(self, k) ==
    IF k > 11 THEN [kind |-> "Err", self |-> self]
    ELSE LET next == [self EXCEPT ![k] = (@ + 1) % 256]
         IN  IF next[k] # 0 THEN [kind |-> "Ok", self |-> next]
             ELSE increment_loop(next, k + 1)

\* mutant: the carry is not propagated past the first byte
increment_NoCarry(self) ==
    [kind |-> "Ok", self |-> [self EXCEPT ![1] = (@ + 1) % 256]]

\* DiversifierIndex::increment: the result and the index it leaves behind
increment(self) == increment_loop(self, 1)

(* ------------------------ the two hash functions ----------------------- *)

Blake2b512(personal, parts) ==
    <<Blk([fn |-> "BLAKE2b-512", dom |-> personal, key |-> <<>>,
           input |-> CatAll(parts)], 0, 64)>>

PrfExpandWith(domain, sk, a, b, c, d) ==
    <<Blk([fn |-> "PRF^expand", dom |-> domain, key |-> sk,
           input |-> IF c = <<Lit(0)>> /\ d = <<>>
                     THEN CatAll(<<a, b>>)
                     ELSE CatAll(<<a, b, c, d>>)], 0, 64)>>

(* ---------------------- hardened_only.rs: the core --------------------- *)

\* mutant: one master-key separator shared by the two trees
MKG_DOMAIN_Shared(C) == "ZcashArbitraryKD"

MKG_DOMAIN(C) == IF C = "Adhoc" THEN "ZcashArbitraryKD" ELSE "ZIPRegistered_KD"

CKD_DOMAIN(C) ==
    IF C = "Adhoc" THEN "ADHOC_ZIP32_CHILD" ELSE "REGISTERED_ZIP32_CHILD"

NoKey == [ctx |-> "none", sk |-> <<>>, chain_code |-> <<>>]

\* mutant: the halves are taken the other way round
from_bytes_Swapped(C, I) ==
    LET s == split_at(I, 32)
    IN  [ctx |-> C, sk |-> s[2], chain_code |-> s[1]]

from_bytes(C, I) ==
    LET s == split_at(I, 32)
    IN  [ctx |-> C, sk |-> s[1], chain_code |-> s[2]]

master(C, ikm) == from_bytes(C, Blake2b512(MKG_DOMAIN(C), ikm))

\* mutant: a lead byte of 0 is not handed to the PRF at all
ckdh_internal_OmitZeroLead(self, idx, lead, tag) ==
    PrfExpandWith(CKD_DOMAIN(self.ctx), self.chain_code,
                  self.sk, to_le_bytes(index(idx)),
                  IF lead = 0 THEN <<>> ELSE <<Lit(lead)>>, tag)

\* mutant: the lead byte handed to the PRF is always 0
ckdh_internal_IgnoreLead(self, idx, lead, tag) ==
    PrfExpandWith(CKD_DOMAIN(self.ctx), self.chain_code,
                  self.sk, to_le_bytes(index(idx)), <<Lit(0)>>, tag)

ckdh_internal(self, idx, lead, tag) ==
    PrfExpandWith(CKD_DOMAIN(self.ctx), self.chain_code,
                  self.sk, to_le_bytes(index(idx)), <<Lit(lead)>>, tag)

derive_child_with_tag(self, idx, tag) ==
    from_bytes(self.ctx, ckdh_internal(self, idx, 0, tag))

\* mutant: a one-byte zero tag instead of the empty tag
derive_child_ZeroTag(self, idx) ==
    derive_child_with_tag(self, idx, <<Lit(0)>>)

derive_child(self, idx) == derive_child_with_tag(self, idx, <<>>)

(* ------------------------- IKM assembly (with_ikm) --------------------- *)

with_ikm(context_string, seed) ==
    LET context_len == ByteLen(context_string)
        seed_len == ByteLen(seed)
    IN  IF context_len < 1 \/ context_len > 252
           \/ seed_len < 32 \/ seed_len > 252
        THEN [panic |-> TRUE, ikm |-> <<>>]
        ELSE [panic |-> FALSE,
              ikm |-> << <<Lit(context_len)>>, context_string,
                         <<Lit(seed_len)>>, seed >>]

(* ----------------------------- results --------------------------------- *)

Ret(kind, err, key, bytes, idx) ==
    [kind |-> kind, err |-> err, key |-> key, bytes |-> bytes, idx |-> idx,
     text |-> <<>>]

OkKey(k) == Ret("Ok", "", k, <<>>, NoIndex)

OkBytes(b) == Ret("Ok", "", NoKey, b, NoIndex)

Err(e) == Ret("Err", e, NoKey, <<>>, NoIndex)

Panic == Ret("panic", "", NoKey, <<>>, NoIndex)

(* --------------------------- arbitrary.rs ------------------------------ *)

\* mutant: the IKM is assembled without the length assertions
arbitrary_master_Unchecked(context_string, seed) ==
    OkKey(master("Adhoc",
                 << <<Lit(ByteLen(context_string) % 256)>>, context_string,
                    <<Lit(ByteLen(seed) % 256)>>, seed >>))

\* mutant: the IKM is the context string followed by the seed, no lengths
arbitrary_master_NoLengths(context_string, seed) ==
    LET w == with_ikm(context_string, seed)
    IN  IF w.panic THEN Panic
        ELSE OkKey(master("Adhoc", <<context_string, seed>>))

arbitrary_master(context_string, seed) ==
    LET w == with_ikm(context_string, seed)
    IN  IF w.panic THEN Panic ELSE OkKey(master("Adhoc", w.ikm))

arbitrary_derive_child(self, idx) == derive_child(self, idx)

\* mutant: the path is walked from its last index to its first
RECURSIVE FoldDeriveChild_Reversed(_, _)
FoldDeriveChild_Reversed(xsk, path) ==
    IF path = <<>> THEN xsk
    ELSE arbitrary_derive_child(
             FoldDeriveChild_Reversed(xsk, Tail(path)), Head(path))

RECURSIVE FoldDeriveChild(_, _)
FoldDeriveChild(xsk, path) ==
    IF path = <<>> THEN xsk
    ELSE FoldDeriveChild(arbitrary_derive_child(xsk, Head(path)), Tail(path))

from_path(context_string, seed, path) ==
    LET m == arbitrary_master(context_string, seed)
    IN  IF m.kind = "panic" THEN Panic
        ELSE OkKey(FoldDeriveChild(m.key, path))

(* --------------------------- registered.rs ----------------------------- *)

PathElement(child_index, tag) == [child_index |-> child_index, tag |-> tag]

\* mutant: the IKM is the context string followed by the seed, no lengths
registered_master_NoLengths(context_string, seed) ==
    LET w == with_ikm(context_string, seed)
    IN  IF w.panic THEN Panic
        ELSE OkKey(master("Registered", <<context_string, seed>>))

registered_master(context_string, seed) ==
    LET w == with_ikm(context_string, seed)
    IN  IF w.panic THEN Panic ELSE OkKey(master("Registered", w.ikm))

registered_derive_child_with_tag(self, idx, tag) ==
    derive_child_with_tag(self, idx, tag)

registered_derive_child(self, idx) ==
    registered_derive_child_with_tag(self, idx, <<>>)

\* mutant: the full-width derivation passes lead = 0
derive_child_cryptovalue_LeadZero(self, idx, tag) ==
    ckdh_internal(self, idx, 0, tag)

derive_child_cryptovalue(self, idx, tag) == ckdh_internal(self, idx, 1, tag)

\* mutant: the ZIP number is not derived into the subtree root
SubtreeRoot_NoZip(context_string, seed, zip_number) ==
    registered_master(context_string, seed)

\* master(context_string, seed).derive_child(hardened(u32::from(zip_number)))
SubtreeRoot(context_string, seed, zip_number) ==
    LET m == registered_master(context_string, seed)
        z == hardened(u32_from_u16(zip_number))
    IN  IF m.kind = "panic" \/ z.kind = "panic" THEN Panic
        ELSE OkKey(registered_derive_child(m.key, z.idx))

\* mutant: the tags of the subpath elements are dropped
RECURSIVE FoldDeriveChildWithTag_NoTag(_, _)
FoldDeriveChildWithTag_NoTag(xsk, subpath) ==
    IF subpath = <<>> THEN xsk
    ELSE FoldDeriveChildWithTag_NoTag(
             registered_derive_child(xsk, Head(subpath).child_index),
             Tail(subpath))

RECURSIVE FoldDeriveChildWithTag(_, _)
FoldDeriveChildWithTag(xsk, subpath) ==
    IF subpath = <<>> THEN xsk
    ELSE FoldDeriveChildWithTag(
             registered_derive_child_with_tag(
                 xsk, Head(subpath).child_index, Head(subpath).tag),
             Tail(subpath))

\* mutant: the seed length is not checked
from_subpath_NoSeedCheck(context_string, seed, zip_number, subpath) ==
    IF ByteLen(context_string) = 0 \/ ByteLen(context_string) > 252
    THEN Err("ContextStringInvalid")
    ELSE LET r == SubtreeRoot(context_string, seed, zip_number)
         IN  IF r.kind = "panic" THEN Panic
             ELSE OkKey(FoldDeriveChildWithTag(r.key, subpath))

from_subpath(context_string, seed, zip_number, subpath) ==
    IF ByteLen(context_string) = 0 \/ ByteLen(context_string) > 252
    THEN Err("ContextStringInvalid")
    ELSE IF ByteLen(seed) < 32 \/ ByteLen(seed) > 252
    THEN Err("SeedInvalid")
    ELSE LET r == SubtreeRoot(context_string, seed, zip_number)
         IN  IF r.kind = "panic" THEN Panic
             ELSE OkKey(FoldDeriveChildWithTag(r.key, subpath))

\* mutant: the empty subpath yields the halves of the subtree root rejoined
cryptovalue_from_subpath_EmptyAllowed(context_string, seed, zip_number, subpath) ==
    IF ByteLen(context_string) = 0 \/ ByteLen(context_string) > 252
    THEN Err("ContextStringInvalid")
    ELSE IF ByteLen(seed) < 32 \/ ByteLen(seed) > 252
    THEN Err("SeedInvalid")
    ELSE LET r == SubtreeRoot(context_string, seed, zip_number)
         IN  IF r.kind = "panic" THEN Panic
             ELSE IF subpath = <<>>
             THEN OkBytes(Cat(r.key.sk, r.key.chain_code))
             ELSE LET xsk == FoldDeriveChildWithTag(
                                 r.key, SubSeq(subpath, 1, Len(subpath) - 1))
                      elem == subpath[Len(subpath)]
                  IN  OkBytes(derive_child_cryptovalue(
                                  xsk, elem.child_index, elem.tag))

\* mutant: the ordinary derivation is applied to the last element as well
cryptovalue_from_subpath_FoldAll(context_string, seed, zip_number, subpath) ==
    IF ByteLen(context_string) = 0 \/ ByteLen(context_string) > 252
    THEN Err("ContextStringInvalid")
    ELSE IF ByteLen(seed) < 32 \/ ByteLen(seed) > 252
    THEN Err("SeedInvalid")
    ELSE IF subpath = <<>>
    THEN Err("SubpathEmpty")
    ELSE LET r == SubtreeRoot(context_string, seed, zip_number)
         IN  IF r.kind = "panic" THEN Panic
             ELSE LET xsk == FoldDeriveChildWithTag(r.key, subpath)
                      elem == subpath[Len(subpath)]
                  IN  OkBytes(derive_child_cryptovalue(
                                  xsk, elem.child_index, elem.tag))

\* mutant: the empty subpath is reported before the lengths are checked
cryptovalue_from_subpath_EmptyFirst(context_string, seed, zip_number, subpath) ==
    IF subpath = <<>>
    THEN Err("SubpathEmpty")
    ELSE IF ByteLen(context_string) = 0 \/ ByteLen(context_string) > 252
    THEN Err("ContextStringInvalid")
    ELSE IF ByteLen(seed) < 32 \/ ByteLen(seed) > 252
    THEN Err("SeedInvalid")
    ELSE LET r == SubtreeRoot(context_string, seed, zip_number)
         IN  IF r.kind = "panic" THEN Panic
             ELSE LET xsk == FoldDeriveChildWithTag(
                                 r.key, SubSeq(subpath, 1, Len(subpath) - 1))
                      elem == subpath[Len(subpath)]
                  IN  OkBytes(derive_child_cryptovalue(
                                  xsk, elem.child_index, elem.tag))

cryptovalue_from_subpath(context_string, seed, zip_number, subpath) ==
    IF ByteLen(context_string) = 0 \/ ByteLen(context_string) > 252
    THEN Err("ContextStringInvalid")
    ELSE IF ByteLen(seed) < 32 \/ ByteLen(seed) > 252
    THEN Err("SeedInvalid")
    ELSE IF subpath = <<>>
    THEN Err("SubpathEmpty")
    ELSE LET r == SubtreeRoot(context_string, seed, zip_number)
         IN  IF r.kind = "panic" THEN Panic
             ELSE LET xsk == FoldDeriveChildWithTag(
                                 r.key, SubSeq(subpath, 1, Len(subpath) - 1))
                      elem == subpath[Len(subpath)]
                  IN  OkBytes(derive_child_cryptovalue(
                                  xsk, elem.child_index, elem.tag))

(* ------------------- Bech32m (crate bech32, BIP 350) ------------------- *)
(* A text is a sequence of one-character strings.                          *)

LOWER ==
    <<"a", "b", "c", "d", "e", "f", "g", "h", "i", "j", "k", "l", "m", "n",
      "o", "p", "q", "r", "s", "t", "u", "v", "w", "x", "y", "z">>

UPPER ==
    <<"A", "B", "C", "D", "E", "F", "G", "H", "I", "J", "K", "L", "M", "N",
      "O", "P", "Q", "R", "S", "T", "U", "V", "W", "X", "Y", "Z">>

DIGITS == <<"0", "1", "2", "3", "4", "5", "6", "7", "8", "9">>

IndexOf(seq, c) == CHOOSE i \in 1..Len(seq) : seq[i] = c

IsIn(seq, c) == \E i \in 1..Len(seq) : seq[i] = c

is_ascii_uppercase(c) == IsIn(UPPER, c)

is_ascii_lowercase(c) == IsIn(LOWER, c)

to_ascii_lowercase(c) == IF IsIn(UPPER, c) THEN LOWER[IndexOf(UPPER, c)] ELSE c

to_ascii_uppercase(c) == IF IsIn(LOWER, c) THEN UPPER[IndexOf(LOWER, c)] ELSE c

\* the ASCII code of a letter or digit
Ord(c) ==
    IF IsIn(LOWER, c) THEN 96 + IndexOf(LOWER, c)
    ELSE IF IsIn(UPPER, c) THEN 64 + IndexOf(UPPER, c)
    ELSE 47 + IndexOf(DIGITS, c)

Lowercase(s) == [i \in 1..Len(s) |-> to_ascii_lowercase(s[i])]

Uppercase(s) == [i \in 1..Len(s) |-> to_ascii_uppercase(s[i])]

\* the 32 characters of the data part, in the order of their values 0..31
CHARSET ==
    <<"q", "p", "z", "r", "y", "9", "x", "8", "g", "f", "2", "t", "v", "d",
      "w", "0", "s", "3", "j", "n", "5", "4", "k", "h", "c", "e", "6", "m",
      "u", "a", "7", "l">>

Fe32_to_char(v) == CHARSET[v + 1]

Fe32_is_char(c) == IsIn(CHARSET, to_ascii_lowercase(c))

Fe32_from_char(c) == IndexOf(CHARSET, to_ascii_lowercase(c)) - 1

RECURSIVE Xor(_, _)
Xor(a, b) ==
    IF a = 0 THEN b
    ELSE IF b = 0 THEN a
    ELSE ((a + b) % 2) + 2 * Xor(a \div 2, b \div 2)

\* the generator of the BCH code, as the five 30-bit words of BIP 173
GEN == <<996825010, 642813549, 513874426, 1027748829, 705979059>>

\* checksum length and target residue of the two checksum algorithms
Bech32m == [CHECKSUM_LENGTH |-> 6, TARGET_RESIDUE |-> 734539939]

Bech32 == [CHECKSUM_LENGTH |-> 6, TARGET_RESIDUE |-> 1]

RECURSIVE ApplyGen(_, _, _)
ApplyGen(chk, top, i) ==
    IF i > 5 THEN chk
    ELSE ApplyGen(IF (top \div (2 ^ (i - 1))) % 2 = 1
                  THEN Xor(chk, GEN[i]) ELSE chk,
                  top, i + 1)

\* one field element fed to the checksum engine
input_fe(chk, v) ==
    ApplyGen(Xor((chk % 33554432) * 32, v), chk \div 33554432, 1)

\* the field elements fed in order; the sequence is split in halves so that
\* the evaluation nests no deeper than the logarithm of its length
RECURSIVE input_fes(_, _)
input_fes(chk, values) ==
    IF values = <<>> THEN chk
    ELSE IF Len(values) = 1 THEN input_fe(chk, values[1])
    ELSE LET half == Len(values) \div 2
             mid  == input_fes(chk, SubSeq(values, 1, half))
         IN  IF mid >= 0
             THEN input_fes(mid, SubSeq(values, half + 1, Len(values)))
             ELSE 0

\* the human-readable part as the engine reads it: high bits, 0, low bits
hrp_expand(hrp) ==
    LET l == Lowercase(hrp)
    IN  [i \in 1..Len(l) |-> Ord(l[i]) \div 32] \o <<0>>
            \o [i \in 1..Len(l) |-> Ord(l[i]) % 32]

residue(hrp, fes) == input_fes(1, hrp_expand(hrp) \o fes)

\* bit k (from 0, most significant first) of a sequence of w-bit words,
\* 0 beyond its end
BitAt(words, w, k) ==
    IF k \div w >= Len(words) THEN 0
    ELSE (words[(k \div w) + 1] \div (2 ^ (w - 1 - (k % w)))) % 2

\* the w bits from bit k on, as a number
BitsAt(words, w, k, n) ==
    LET b(j) == BitAt(words, w, k + j) * (2 ^ (n - 1 - j))
    IN  IF n = 5 THEN b(0) + b(1) + b(2) + b(3) + b(4)
        ELSE b(0) + b(1) + b(2) + b(3) + b(4) + b(5) + b(6) + b(7)

\* bytes regrouped into 5-bit field elements, the last one zero-padded
bytes_to_fes(bytes) ==
    [i \in 1..((8 * Len(bytes) + 4) \div 5) |-> BitsAt(bytes, 8, 5 * (i - 1), 5)]

\* field elements regrouped into bytes, the incomplete last byte dropped
fes_to_bytes(fes) ==
    [i \in 1..((5 * Len(fes)) \div 8) |-> BitsAt(fes, 5, 8 * (i - 1), 8)]

\* the six checksum symbols that bring the residue to the target
checksum(Ck, hrp, fes) ==
    LET r == Xor(residue(hrp, fes \o <<0, 0, 0, 0, 0, 0>>), Ck.TARGET_RESIDUE)
    IN  [i \in 1..6 |-> (r \div (32 ^ (6 - i))) % 32]

\* bech32::encode: hrp, separator, data symbols, checksum symbols
encode(Ck, hrp, bytes) ==
    LET fes == bytes_to_fes(bytes)
        all == fes \o checksum(Ck, hrp, fes)
    IN  Lowercase(hrp) \o <<"1">> \o [i \in 1..Len(all) |-> Fe32_to_char(all[i])]

ParseErr == [kind |-> "Err", hrp |-> <<>>, data |-> <<>>]

\* CheckedHrpstring::new::<Ck>(s): separator, characters, case, checksum
CheckedHrpstring_new(Ck, s) ==
    LET seps == {i \in 1..Len(s) : s[i] = "1"}
    IN  IF seps = {} THEN ParseErr
        ELSE LET sep  == CHOOSE i \in seps : \A j \in seps : j <= i
                 hrp  == SubSeq(s, 1, sep - 1)
                 rest == SubSeq(s, sep + 1, Len(s))
                 fes  == [i \in 1..Len(rest) |-> Fe32_from_char(rest[i])]
             IN  IF hrp = <<>> THEN ParseErr
                 ELSE IF \E i \in 1..Len(rest) : ~Fe32_is_char(rest[i])
                 THEN ParseErr
                 ELSE IF /\ \E i \in 1..Len(s) : is_ascii_uppercase(s[i])
                         /\ \E i \in 1..Len(s) : is_ascii_lowercase(s[i])
                 THEN ParseErr
                 ELSE IF Len(rest) < Ck.CHECKSUM_LENGTH THEN ParseErr
                 ELSE IF residue(hrp, fes) # Ck.TARGET_RESIDUE THEN ParseErr
                 ELSE [kind |-> "Ok", hrp |-> hrp,
                       data |-> SubSeq(fes, 1, Len(fes) - Ck.CHECKSUM_LENGTH)]

\* Hrp == Hrp compares without regard to case
HrpEq(a, b) == Lowercase(a) = Lowercase(b)

byte_iter(checked) == fes_to_bytes(checked.data)

(* -------------------- fingerprint.rs: SeedFingerprint ------------------ *)

ZIP32_SEED_FP_PERSONALIZATION == "Zcash_HD_Seed_FP"

\* BLAKE2b with a 32-byte digest, personalised
Blake2b256(personal, parts) ==
    <<Blk([fn |-> "BLAKE2b-256", dom |-> personal, key |-> <<>>,
           input |-> CatAll(parts)], 0, 32)>>

\* usize -> u8: fails above 255
u8_try_from(n) ==
    IF n <= 255 THEN [kind |-> "Ok", v |-> n] ELSE [kind |-> "Err", v |-> 0]

SomeBytes(b) == Ret("Some", "", NoKey, b, NoIndex)

None == Ret("None", "", NoKey, <<>>, NoIndex)

\* mutant: only the lower bound of the seed length is checked
from_seed_NoUpperBound(seed_bytes) ==
    LET seed_len == ByteLen(seed_bytes)
    IN  IF 32 <= seed_len
        THEN LET b == u8_try_from(seed_len)
             IN  IF b.kind = "Err" THEN Panic
                 ELSE SomeBytes(Blake2b256(ZIP32_SEED_FP_PERSONALIZATION,
                                           <<FromBytes(<<b.v>>), seed_bytes>>))
        ELSE None

from_seed(seed_bytes) ==
    LET seed_len == ByteLen(seed_bytes)
    IN  IF 32 <= seed_len /\ seed_len <= 252
        THEN LET b == u8_try_from(seed_len)
             IN  IF b.kind = "Err" THEN Panic
                 ELSE SomeBytes(Blake2b256(ZIP32_SEED_FP_PERSONALIZATION,
                                           <<FromBytes(<<b.v>>), seed_bytes>>))
        ELSE None

HRP == <<"z", "i", "p", "3", "2", "s", "e", "e", "d", "f", "p">>

\* the byte values of a string of literal bytes
RECURSIVE ToValues(_)
ToValues(bs) ==
    IF bs = <<>> THEN <<>>
    ELSE [i \in 1..ItemLen(Head(bs)) |-> Head(bs).byte] \o ToValues(Tail(bs))

SeedFingerprint_from_bytes(hash) == hash

to_bytes(self) == self

OkText(t) == [Ret("Ok", "", NoKey, <<>>, NoIndex) EXCEPT !.text = t]

\* mutant: the text carries a Bech32 checksum instead of a Bech32m one
to_string_Bech32(self) == OkText(encode(Bech32, HRP, ToValues(self)))

\* Display
to_string(self) == OkText(encode(Bech32m, HRP, ToValues(self)))

\* mutant: the payload length is tested before the prefix
from_str_LengthFirst(s) ==
    LET checked == CheckedHrpstring_new(Bech32m, s)
    IN  IF checked.kind = "Err" THEN Err("NotABech32mString")
        ELSE LET data == byte_iter(checked)
             IN  IF Len(data) # 32 THEN Err("InvalidLength")
                 ELSE IF HrpEq(checked.hrp, HRP) THEN OkBytes(FromBytes(data))
                 ELSE Err("NotASeedFingerprint")

from_str(s) ==
    LET checked == CheckedHrpstring_new(Bech32m, s)
    IN  IF checked.kind = "Err" THEN Err("NotABech32mString")
        ELSE IF HrpEq(checked.hrp, HRP)
        THEN LET data == byte_iter(checked)
             IN  IF Len(data) = 32 THEN OkBytes(FromBytes(data))
                 ELSE Err("InvalidLength")
        ELSE Err("NotASeedFingerprint")

(* ------------------------------ inputs --------------------------------- *)

ContextStrings == {Bytes(n, 90) : n \in {0, 1, 252, 253}}

Seeds == {Bytes(n, 0) : n \in {16, 31, 32, 252, 253}}

ZipNumbers == {0, 65535}

U32Samples ==
    {U32(0, 0), U32(0, 1), U32(0, 65535), U32(1, 0), U32(32767, 65535),
     U32(32768, 0), U32(32768, 1), U32(65535, 65535)}

ChildIndices == {hardened(U32(0, v)).idx : v \in 0..MaxChild}

Tags == {FromBytes(t) : t \in UNION {[1..n -> {0, 1}] : n \in 0..MaxTagLen}}

\* ZIP numbers a call is compared against
ZipProbes == {0, 256, 65535}

\* seeds handed to SeedFingerprint::from_seed, around the two bounds and
\* around the width of a byte
FingerprintSeeds ==
    {Bytes(n, 0) : n \in {0, 1, 16, 31, 32, 33, 64, 251, 252, 253, 255, 256, 257}}
        \cup {FromBytes([i \in 1..32 |-> i - 1])}

\* the fingerprint of the seed 00 01 .. 1f and its text form
TestVectorFingerprint ==
    <<222, 255, 96, 76, 36, 103, 16, 247, 23, 109, 234, 208, 42, 167, 70,
      242, 253, 141, 83, 137, 247, 7, 37, 86, 220, 181, 85, 253, 190, 94,
      58, 227>>

TestVectorString ==
    <<"z", "i", "p", "3", "2", "s", "e", "e", "d", "f", "p", "1", "m", "m",
      "l", "k", "q", "n", "p", "y", "v", "u", "g", "0", "w", "9", "m", "d",
      "a", "t", "g", "z", "4", "f", "6", "x", "7", "t", "7", "c", "6", "5",
      "u", "f", "7", "u", "r", "j", "2", "4", "k", "u", "k", "4", "2", "l",
      "m", "0", "j", "7", "8", "t", "3", "s", "n", "e", "2", "h", "0", "z">>

\* 32-byte fingerprints handed to SeedFingerprint::from_bytes
Fingerprints ==
    {FromBytes(TestVectorFingerprint), Bytes(32, 0), Bytes(32, 255),
     FromBytes([i \in 1..32 |-> i - 1]),
     FromBytes([i \in 1..32 |-> (37 * i) % 256]),
     FromBytes([i \in 1..32 |-> IF i = 32 THEN 1 ELSE 0])}

\* a payload of n bytes
PayloadOf(n) == [i \in 1..n |-> (7 * i + n) % 256]

OtherHrps ==
    {<<"z", "i", "p", "3", "2", "s", "e", "e", "d", "f", "q">>,
     <<"z", "i", "p", "3", "2", "s", "e", "e", "d", "f">>,
     <<"b", "c">>}

\* texts that are valid Bech32m, with the way from_str has to answer them
ValidTextCases ==
    {[text |-> to_string(fp).text, class |-> "Ok"] : fp \in Fingerprints}
    \cup {[text |-> encode(Bech32m, HRP, PayloadOf(32)), class |-> "Ok"],
          [text |-> Uppercase(encode(Bech32m, HRP, PayloadOf(32))),
           class |-> "Ok"]}
    \cup {[text |-> encode(Bech32m, h, PayloadOf(n)),
           class |-> "NotASeedFingerprint"] :
              h \in OtherHrps, n \in {0, 31, 32, 33}}
    \cup {[text |-> encode(Bech32m, HRP, PayloadOf(n)),
           class |-> "InvalidLength"] : n \in {0, 1, 31, 33, 64}}

\* a text with its last character replaced by another one of the charset
LastReplaced(t) ==
    [t EXCEPT ![Len(t)] = IF t[Len(t)] = "q" THEN "p" ELSE "q"]

\* texts that are not valid Bech32m: wrong checksum, Bech32 checksum, no
\* separator, a character outside the charset, mixed case, truncation,
\* no prefix, fewer than six symbols
InvalidTexts ==
    {LastReplaced(c.text) : c \in ValidTextCases}
    \cup {SubSeq(c.text, 1, Len(c.text) - 1) : c \in ValidTextCases}
    \cup {encode(Bech32, h, PayloadOf(n)) : h \in OtherHrps \cup {HRP},
                                            n \in {31, 32}}
    \cup {SelectSeq(encode(Bech32m, HRP, PayloadOf(n)), LAMBDA ch : ch # "1") :
              n \in {31, 32}}
    \cup {[encode(Bech32m, HRP, PayloadOf(n)) EXCEPT ![20] = "b"] : n \in {31, 32}}
    \cup {[encode(Bech32m, h, PayloadOf(n)) EXCEPT ![1] = "Z"] :
              h \in OtherHrps \cup {HRP}, n \in {31, 32}}
    \cup {SubSeq(encode(Bech32m, HRP, PayloadOf(n)), Len(HRP) + 1,
                 Len(encode(Bech32m, HRP, PayloadOf(n)))) : n \in {31, 32}}
    \cup {<<>>, HRP, HRP \o <<"1">>, HRP \o <<"1", "q", "q", "q", "q", "q">>}

TextCases ==
    ValidTextCases
        \cup {[text |-> t, class |-> "NotABech32mString"] : t \in InvalidTexts}

Texts == {c.text : c \in TextCases}

\* 11-byte arrays handed to DiversifierIndex::from: around the width of a
\* u32 and around the largest index
DiversifierArrays ==
    {[k \in 1..11 |-> 255],
     [k \in 1..11 |-> IF k = 1 THEN 254 ELSE 255],
     [k \in 1..11 |-> IF k = 11 THEN 254 ELSE 255],
     [k \in 1..11 |-> IF k <= 4 THEN 255 ELSE 0],
     [k \in 1..11 |-> IF k <= 4 THEN 255 ELSE IF k = 5 THEN 1 ELSE 0],
     [k \in 1..11 |-> IF k <= 10 THEN 255 ELSE 0],
     [k \in 1..11 |-> IF k = 1 THEN 2 ELSE 0],
     [k \in 1..11 |-> IF k = 5 THEN 1 ELSE 0],
     [k \in 1..11 |-> IF k = 11 THEN 1 ELSE 0]}

\* valid (context string, seed) pairs a call is compared against: pairs whose
\* concatenations coincide, and pairs whose bytes look like length bytes
IkmProbes ==
    {<<cs, seed>> :
        cs \in {Bytes(1, 90), Bytes(2, 90), Bytes(252, 90), Bytes(1, 0),
                Bytes(1, 32), FromBytes(<<90, 0>>), FromBytes(<<90, 32>>),
                FromBytes(<<90, 0, 0>>), FromBytes(<<90, 251>>),
                FromBytes(<<1, 90>>)},
        seed \in {Bytes(32, 0), Bytes(33, 0), Bytes(250, 0), Bytes(251, 0),
                  Bytes(252, 0), Cat(Bytes(1, 32), Bytes(31, 0)),
                  Cat(Bytes(1, 32), Bytes(32, 0)),
                  Cat(Bytes(31, 0), Bytes(1, 90))}}

\* indices and tags a derivation call is compared against
IndexProbes ==
    {U32(32768, 0), U32(32768, 1), U32(32768, 256), U32(32769, 0),
     U32(65535, 65535)}

TagProbes == {FromBytes(t) : t \in UNION {[1..n -> {0, 1}] : n \in 0..2}}

PathElements == {PathElement(i, t) : i \in ChildIndices, t \in Tags}

IndexPaths == UNION {[1..n -> ChildIndices] : n \in 0..MaxPathLen}

Subpaths == UNION {[1..n -> PathElements] : n \in 0..MaxPathLen}

\* every pair of lengths with the paths of at most one element, and the
\* shortest context string and seed with every path
PathCalls ==
    {<<cs, seed, p>> : cs \in ContextStrings, seed \in Seeds,
                       p \in {q \in IndexPaths : Len(q) <= 1}}
    \cup {<<Bytes(1, 90), Bytes(32, 0), p>> : p \in IndexPaths}

SubpathCalls ==
    {<<cs, seed, zip, p>> : cs \in ContextStrings, seed \in Seeds,
                            zip \in ZipNumbers,
                            p \in {q \in Subpaths : Len(q) <= 1}}
    \cup {<<Bytes(1, 90), Bytes(32, 0), zip, p>> : zip \in ZipNumbers,
                                                  p \in Subpaths}

(* ------------------------------- state --------------------------------- *)

NoArg ==
    [self |-> NoKey, cs |-> <<>>, seed |-> <<>>, zip |-> 0, path |-> <<>>,
     index |-> NoIndex, tag |-> <<>>, value |-> NoIndex,
     hash |-> <<>>, text |-> <<>>, di |-> NoDi]

NoOrigin == [cs |-> <<>>, seed |-> <<>>, zip |-> 0, path |-> <<>>]

NoRet == Ret("none", "", NoKey, <<>>, NoIndex)

\* how the held DiversifierIndex was made: the value it was constructed with
\* and the number of successful increments since
NoDiOrigin == [start |-> NoDi, n |-> 0]

Init ==
    /\ op = "new"
    /\ arg = NoArg
    /\ res = NoRet
    /\ node = NoKey
    /\ origin = NoOrigin
    /\ dindex = NoDi
    /\ dindex_origin = NoDiOrigin

\* the caller holds nothing: the previous values were dropped.  node is the
\* key the caller holds and origin the path it was derived along; a
\* cryptovalue is not a key, so after a full-width derivation node is NoKey
\* and origin is the path of the cryptovalue.
Idle == op = "new"

Untagged(path) == [k \in 1..Len(path) |-> PathElement(path[k], <<>>)]

CallFromPath ==
    /\ Idle
    /\ \E c \in PathCalls :
        LET cs == c[1]
            seed == c[2]
            path == c[3]
            r == from_path(cs, seed, path) IN
        /\ op' = "from_path"
        /\ arg' = [NoArg EXCEPT !.cs = cs, !.seed = seed,
                                !.path = Untagged(path)]
        /\ res' = r
        /\ node' = r.key
        /\ origin' = IF r.kind = "Ok"
                     THEN [cs |-> cs, seed |-> seed, zip |-> 0,
                           path |-> Untagged(path)]
                     ELSE NoOrigin
    /\ UNCHANGED <<dindex, dindex_origin>>

CallFromSubpath ==
    /\ Idle
    /\ \E c \in SubpathCalls :
        LET cs == c[1]
            seed == c[2]
            zip == c[3]
            subpath == c[4]
            r == from_subpath(cs, seed, zip, subpath) IN
        /\ op' = "from_subpath"
        /\ arg' = [NoArg EXCEPT !.cs = cs, !.seed = seed, !.zip = zip,
                                !.path = subpath]
        /\ res' = r
        /\ node' = r.key
        /\ origin' = IF r.kind = "Ok"
                     THEN [cs |-> cs, seed |-> seed, zip |-> zip,
                           path |-> subpath]
                     ELSE NoOrigin
    /\ UNCHANGED <<dindex, dindex_origin>>

CallCryptovalueFromSubpath ==
    /\ Idle
    /\ \E c \in SubpathCalls :
        LET cs == c[1]
            seed == c[2]
            zip == c[3]
            subpath == c[4] IN
        /\ op' = "cryptovalue_from_subpath"
        /\ arg' = [NoArg EXCEPT !.cs = cs, !.seed = seed, !.zip = zip,
                                !.path = subpath]
        /\ res' = cryptovalue_from_subpath(cs, seed, zip, subpath)
        /\ node' = NoKey
        /\ origin' = NoOrigin
    /\ UNCHANGED <<dindex, dindex_origin>>

\* how far the caller extends a held key step by step: to the full path
\* length for the (context string, seed) pair of the long paths of PathCalls
\* and SubpathCalls, to one element for every other pair
PathBound(o) ==
    IF o.cs = Bytes(1, 90) /\ o.seed = Bytes(32, 0) THEN MaxPathLen ELSE 1

CallDeriveChild ==
    /\ node.ctx # "none"
    /\ Len(origin.path) < PathBound(origin)
    /\ \E i \in ChildIndices :
        LET k == IF node.ctx = "Adhoc"
                 THEN arbitrary_derive_child(node, i)
                 ELSE registered_derive_child(node, i) IN
        /\ op' = "derive_child"
        /\ arg' = [NoArg EXCEPT !.self = node, !.index = i]
        /\ res' = OkKey(k)
        /\ node' = k
        /\ origin' = [origin EXCEPT
                          !.path = Append(@, PathElement(i, <<>>))]
    /\ UNCHANGED <<dindex, dindex_origin>>

CallDeriveChildWithTag ==
    /\ node.ctx = "Registered"
    /\ Len(origin.path) < PathBound(origin)
    /\ \E i \in ChildIndices, tag \in Tags :
        LET k == registered_derive_child_with_tag(node, i, tag) IN
        /\ op' = "derive_child_with_tag"
        /\ arg' = [NoArg EXCEPT !.self = node, !.index = i, !.tag = tag]
        /\ res' = OkKey(k)
        /\ node' = k
        /\ origin' = [origin EXCEPT
                          !.path = Append(@, PathElement(i, tag))]
    /\ UNCHANGED <<dindex, dindex_origin>>

CallDeriveChildCryptovalue ==
    /\ node.ctx = "Registered"
    /\ Len(origin.path) < PathBound(origin)
    /\ \E i \in ChildIndices, tag \in Tags :
        /\ op' = "derive_child_cryptovalue"
        /\ arg' = [NoArg EXCEPT !.self = node, !.index = i, !.tag = tag]
        /\ res' = OkBytes(derive_child_cryptovalue(node, i, tag))
        /\ node' = NoKey
        /\ origin' = [origin EXCEPT
                          !.path = Append(@, PathElement(i, tag))]
    /\ UNCHANGED <<dindex, dindex_origin>>

CallFromSeed ==
    /\ Idle
    /\ \E seed \in FingerprintSeeds :
        /\ op' = "from_seed"
        /\ arg' = [NoArg EXCEPT !.seed = seed]
        /\ res' = from_seed(seed)
    /\ UNCHANGED <<node, origin>>
    /\ UNCHANGED <<dindex, dindex_origin>>

CallToString ==
    /\ Idle
    /\ \E hash \in Fingerprints :
        /\ op' = "to_string"
        /\ arg' = [NoArg EXCEPT !.hash = hash]
        /\ res' = to_string(SeedFingerprint_from_bytes(hash))
    /\ UNCHANGED <<node, origin>>
    /\ UNCHANGED <<dindex, dindex_origin>>

\* from_str on a text of the input set, or on the text to_string just returned
CallFromStr ==
    /\ Idle \/ op = "to_string"
    /\ \E s \in IF Idle THEN Texts ELSE {res.text} :
        /\ op' = "from_str"
        /\ arg' = [NoArg EXCEPT !.text = s]
        /\ res' = from_str(s)
    /\ UNCHANGED <<node, origin>>
    /\ UNCHANGED <<dindex, dindex_origin>>

CallAccountIdTryFrom ==
    /\ Idle
    /\ \E id \in U32Samples :
        LET r == AccountId_try_from(id) IN
        /\ op' = "AccountId::try_from"
        /\ arg' = [NoArg EXCEPT !.value = id]
        /\ res' = Ret(r.kind, IF r.kind = "Err" THEN "TryFromIntError" ELSE "",
                      NoKey, <<>>, r.idx)
    /\ UNCHANGED <<node, origin>>
    /\ UNCHANGED <<dindex, dindex_origin>>

\* the AccountId that try_from returned is converted back to a u32
CallU32FromAccountId ==
    /\ op = "AccountId::try_from"
    /\ res.kind = "Ok"
    /\ op' = "u32::from(AccountId)"
    /\ arg' = [NoArg EXCEPT !.value = res.idx]
    /\ res' = Ret("Ok", "", NoKey, <<>>, u32_from_AccountId(res.idx))
    /\ UNCHANGED <<node, origin>>
    /\ UNCHANGED <<dindex, dindex_origin>>

\* the AccountId that try_from returned is converted to a ChildIndex
CallChildIndexFromAccountId ==
    /\ op = "AccountId::try_from"
    /\ res.kind = "Ok"
    /\ LET r == ChildIndex_from_AccountId(res.idx) IN
        /\ op' = "ChildIndex::from(AccountId)"
        /\ arg' = [NoArg EXCEPT !.value = res.idx]
        /\ res' = Ret(r.kind, "", NoKey, <<>>, r.idx)
    /\ UNCHANGED <<node, origin>>
    /\ UNCHANGED <<dindex, dindex_origin>>

CallFromIndex ==
    /\ Idle
    /\ \E i \in U32Samples :
        LET r == from_index(i) IN
        /\ op' = "from_index"
        /\ arg' = [NoArg EXCEPT !.value = i]
        /\ res' = Ret(r.kind, "", NoKey, <<>>, r.idx)
        /\ node' = NoKey
        /\ origin' = NoOrigin
    /\ UNCHANGED <<dindex, dindex_origin>>

CallHardened ==
    /\ Idle
    /\ \E v \in U32Samples :
        LET r == hardened(v) IN
        /\ op' = "hardened"
        /\ arg' = [NoArg EXCEPT !.value = v]
        /\ res' = Ret(r.kind, "", NoKey, <<>>, r.idx)
        /\ node' = NoKey
        /\ origin' = NoOrigin
    /\ UNCHANGED <<dindex, dindex_origin>>

CallDiversifierIndexNew ==
    /\ Idle
    /\ op' = "DiversifierIndex::new"
    /\ arg' = NoArg
    /\ res' = Ret("Ok", "", NoKey, <<>>, NoIndex)
    /\ dindex' = DiversifierIndex_new
    /\ dindex_origin' = [start |-> DiversifierIndex_new, n |-> 0]
    /\ UNCHANGED <<node, origin>>

CallDiversifierIndexFromU32 ==
    /\ Idle
    /\ \E j \in U32Samples :
        /\ op' = "DiversifierIndex::from(u32)"
        /\ arg' = [NoArg EXCEPT !.value = j]
        /\ res' = Ret("Ok", "", NoKey, <<>>, NoIndex)
        /\ dindex' = DiversifierIndex_from_u32(j)
        /\ dindex_origin' = [start |-> DiversifierIndex_from_u32(j), n |-> 0]
    /\ UNCHANGED <<node, origin>>

CallDiversifierIndexFromArray ==
    /\ Idle
    /\ \E j_bytes \in DiversifierArrays :
        /\ op' = "DiversifierIndex::from([u8; 11])"
        /\ arg' = [NoArg EXCEPT !.di = j_bytes]
        /\ res' = Ret("Ok", "", NoKey, <<>>, NoIndex)
        /\ dindex' = DiversifierIndex_from_array(j_bytes)
        /\ dindex_origin' = [start |-> j_bytes, n |-> 0]
    /\ UNCHANGED <<node, origin>>

\* increment(&mut self): the held index is what the call leaves in place
CallIncrement ==
    /\ dindex # NoDi
    /\ dindex_origin.n < MaxIncrements
    /\ LET r == increment(dindex) IN
        /\ op' = "increment"
        /\ arg' = [NoArg EXCEPT !.di = dindex]
        /\ res' = Ret(r.kind,
                      IF r.kind = "Err" THEN "DiversifierIndexOverflowError"
                      ELSE "",
                      NoKey, <<>>, NoIndex)
        /\ dindex' = r.self
        /\ dindex_origin' = [dindex_origin EXCEPT
                             !.n = IF r.kind = "Ok" THEN @ + 1 ELSE @]
    /\ UNCHANGED <<node, origin>>

\* u32::try_from(di) on a copy of the held index
CallU32TryFromDiversifierIndex ==
    /\ dindex # NoDi
    /\ LET r == u32_try_from_DiversifierIndex(dindex) IN
        /\ op' = "u32::try_from(DiversifierIndex)"
        /\ arg' = [NoArg EXCEPT !.di = dindex]
        /\ res' = Ret(r.kind, IF r.kind = "Err" THEN "TryFromIntError" ELSE "",
                      NoKey, <<>>, r.v)
    /\ UNCHANGED <<node, origin, dindex, dindex_origin>>

\* the caller drops the values it holds
Drop ==
    /\ ~Idle
    /\ op' = "new"
    /\ arg' = NoArg
    /\ res' = NoRet
    /\ node' = NoKey
    /\ origin' = NoOrigin
    /\ dindex' = NoDi
    /\ dindex_origin' = NoDiOrigin

Next ==
    \/ CallFromPath
    \/ CallFromSubpath
    \/ CallCryptovalueFromSubpath
    \/ CallDeriveChild
    \/ CallDeriveChildWithTag
    \/ CallDeriveChildCryptovalue
    \/ CallFromIndex
    \/ CallHardened
    \/ CallAccountIdTryFrom
    \/ CallU32FromAccountId
    \/ CallChildIndexFromAccountId
    \/ CallDiversifierIndexNew
    \/ CallDiversifierIndexFromU32
    \/ CallDiversifierIndexFromArray
    \/ CallIncrement
    \/ CallU32TryFromDiversifierIndex
    \/ CallFromSeed
    \/ CallToString
    \/ CallFromStr
    \/ Drop

Spec == Init /\ [][Next]_vars

TypeOK ==
    /\ op \in {"new", "from_path", "from_subpath", "cryptovalue_from_subpath",
               "derive_child", "derive_child_with_tag",
               "derive_child_cryptovalue", "from_index", "hardened",
               "from_seed", "to_string", "from_str", "AccountId::try_from",
               "u32::from(AccountId)", "ChildIndex::from(AccountId)",
               "DiversifierIndex::new", "DiversifierIndex::from(u32)",
               "DiversifierIndex::from([u8; 11])", "increment",
               "u32::try_from(DiversifierIndex)"}
    /\ dindex # NoDi => dindex \in [1..11 -> 0..255]
    /\ res.kind \in {"none", "Ok", "Err", "panic", "Some", "None"}
    /\ node.ctx \in {"none", "Adhoc", "Registered"}
    /\ node.ctx # "none" => ByteLen(node.sk) = 32 /\ ByteLen(node.chain_code) = 32

(* ------------------------------ claims --------------------------------- *)

ValidLengths(cs, seed) ==
    /\ ByteLen(cs) >= 1 /\ ByteLen(cs) <= 252
    /\ ByteLen(seed) >= 32 /\ ByteLen(seed) <= 252

\* the invocation whose output the 32 or 64 bytes bs are taken from
Invocation(bs) == bs[1].h[1]

Indices(path) == [k \in 1..Len(path) |-> path[k].child_index]

DerivationOps ==
    {"derive_child", "derive_child_with_tag", "derive_child_cryptovalue"}

LastPrfInput ==
    IF op = "derive_child_cryptovalue"
    THEN Invocation(res.bytes).input
    ELSE Invocation(res.key.sk).input

\* C1: the PRF input of a child derivation is secret || LE32(index) when the
\* tag is empty and the call is not full-width, and otherwise
\* secret || LE32(index) || [lead] || tag with lead = 1 exactly for the
\* full-width derivation; in both trees.
C1_PrfInput ==
    op \in DerivationOps =>
        LET full == op = "derive_child_cryptovalue"
            base == Cat(arg.self.sk, to_le_bytes(arg.index))
            lead == <<Lit(IF full THEN 1 ELSE 0)>>
        IN  LastPrfInput =
                IF arg.tag # <<>> \/ full
                THEN Cat(Cat(base, lead), arg.tag)
                ELSE base

C1_Witness ==
    /\ op = "derive_child_with_tag"
    /\ arg.tag = <<>>
    /\ ByteLen(LastPrfInput) = 36

\* C2: from_subpath and cryptovalue_from_subpath never panic; they return Err
\* whenever a length is out of bounds, and from_subpath returns Ok whenever
\* both lengths are within bounds.
C2_NoAbort ==
    op \in {"from_subpath", "cryptovalue_from_subpath"} =>
        /\ res.kind # "panic"
        /\ ~ValidLengths(arg.cs, arg.seed) => res.kind = "Err"
        /\ (ValidLengths(arg.cs, arg.seed) /\ op = "from_subpath") =>
               res.kind = "Ok" /\ res.key.ctx = "Registered"

C2_Witness ==
    /\ op = "from_subpath"
    /\ ByteLen(arg.cs) = 252
    /\ ByteLen(arg.seed) = 32
    /\ arg.path = <<>>
    /\ res.kind = "Ok"

\* C3: with valid lengths, cryptovalue_from_subpath returns
\* Err(SubpathEmpty) and no bytes for the empty subpath, and Ok with 64
\* bytes for a non-empty subpath.
C3_SubpathEmpty ==
    (op = "cryptovalue_from_subpath" /\ ValidLengths(arg.cs, arg.seed)) =>
        IF arg.path = <<>>
        THEN res.kind = "Err" /\ res.err = "SubpathEmpty" /\ res.bytes = <<>>
        ELSE res.kind = "Ok" /\ ByteLen(res.bytes) = 64

C3_Witness ==
    /\ op = "cryptovalue_from_subpath"
    /\ ValidLengths(arg.cs, arg.seed)
    /\ arg.path = <<>>
    /\ res.err = "SubpathEmpty"

\* C4: arbitrary from_path panics and returns no key exactly when a length
\* is out of bounds, and returns an ad-hoc key otherwise, for every path.
C4_FromPathPanics ==
    op = "from_path" =>
        IF ValidLengths(arg.cs, arg.seed)
        THEN res.kind = "Ok" /\ res.key.ctx = "Adhoc"
        ELSE res.kind = "panic" /\ res.key = NoKey

C4_Witness ==
    /\ op = "from_path"
    /\ ByteLen(arg.cs) = 1
    /\ ByteLen(arg.seed) = 16
    /\ res.kind = "panic"

\* C5: from_index(i) is None for i < 2^31 and Some(c) with c.index() = i for
\* i >= 2^31, so the index it returns has its top bit set.
C5_FromIndex ==
    op = "from_index" =>
        IF arg.value.hi < 32768
        THEN res.kind = "None"
        ELSE res.kind = "Some" /\ index(res.idx) = arg.value
                               /\ res.idx.hi >= 32768

C5_Witness ==
    /\ op = "from_index"
    /\ arg.value = U32(32768, 0)
    /\ res.kind = "Some"

\* C6: hardened(v) is v + 2^31 (at least 2^31, within 32 bits) for v < 2^31
\* and panics for v >= 2^31.
C6_Hardened ==
    op = "hardened" =>
        IF arg.value.hi < 32768
        THEN /\ res.kind = "Ok"
             /\ res.idx = U32(arg.value.hi + 32768, arg.value.lo)
             /\ res.idx.hi >= 32768 /\ res.idx.hi <= 65535
        ELSE res.kind = "panic"

C6_Witness ==
    /\ op = "hardened"
    /\ arg.value = U32(32767, 65535)
    /\ res.idx = U32(65535, 65535)

\* C7: from_path is the left fold of derive_child from the ad-hoc master
\* key: the key at the empty path is the master key, the key at p ++ [i] is
\* derive_child(i) of the key at p, and a key reached by successive
\* derive_child calls is the key from_path gives for the path walked.
C7_FromPathFold ==
    /\ (op = "from_path" /\ res.kind = "Ok") =>
           IF arg.path = <<>>
           THEN res.key = arbitrary_master(arg.cs, arg.seed).key
           ELSE res.key =
                    derive_child(
                        from_path(arg.cs, arg.seed,
                                  Indices(Front(arg.path))).key,
                        Last(arg.path).child_index)
    /\ node.ctx = "Adhoc" =>
           node = from_path(origin.cs, origin.seed, Indices(origin.path)).key

C7_Witness ==
    /\ op = "from_path"
    /\ res.kind = "Ok"
    /\ Len(arg.path) = 2
    /\ arg.path[1] # arg.path[2]

\* C8: from_subpath is master.derive_child(hardened(zip_number)) followed by
\* the left fold of derive_child_with_tag over the subpath: the key at
\* p ++ [e] is derive_child_with_tag(e.index, e.tag) of the key at p.
C8_FromSubpathFold ==
    /\ (op = "from_subpath" /\ res.kind = "Ok") =>
           IF arg.path = <<>>
           THEN res.key =
                    derive_child(
                        registered_master(arg.cs, arg.seed).key,
                        hardened(u32_from_u16(arg.zip)).idx)
           ELSE res.key =
                    derive_child_with_tag(
                        from_subpath(arg.cs, arg.seed, arg.zip,
                                     Front(arg.path)).key,
                        Last(arg.path).child_index, Last(arg.path).tag)
    /\ node.ctx = "Registered" =>
           node = from_subpath(origin.cs, origin.seed, origin.zip,
                               origin.path).key

C8_Witness ==
    /\ op = "derive_child_with_tag"
    /\ arg.tag # <<>>
    /\ Len(origin.path) = 2
    /\ origin.path[1] # origin.path[2]
    /\ origin.zip = 65535

\* C9: for valid inputs cryptovalue_from_subpath(p ++ [e]) is
\* derive_child_cryptovalue(e.index, e.tag) of from_subpath(p): the
\* full-width derivation (lead byte 1, 64 bytes unsplit) is applied at the
\* last element only.
C9_CryptovalueLast ==
    /\ (op = "cryptovalue_from_subpath" /\ res.kind = "Ok") =>
           /\ res.bytes =
                  derive_child_cryptovalue(
                      from_subpath(arg.cs, arg.seed, arg.zip,
                                   Front(arg.path)).key,
                      Last(arg.path).child_index, Last(arg.path).tag)
           /\ ByteLen(res.bytes) = 64
           /\ Len(res.bytes) = 1
           /\ TakeBytes(DropBytes(Invocation(res.bytes).input, 36), 1)
                  = <<Lit(1)>>
    /\ op = "derive_child_cryptovalue" =>
           /\ Last(origin.path) = PathElement(arg.index, arg.tag)
           /\ res.bytes =
                  cryptovalue_from_subpath(
                      origin.cs, origin.seed, origin.zip, origin.path).bytes

C9_Witness ==
    /\ op = "cryptovalue_from_subpath"
    /\ res.kind = "Ok"
    /\ Len(arg.path) = 2
    /\ arg.path[1].tag # <<>>

\* C10: derive_child(i) returns the secret and chain code of
\* derive_child_with_tag(i, empty tag), in HardenedOnlyKey of either context
\* and in registered::SecretKey.
C10_DeriveChildNoTag ==
    /\ op = "derive_child" =>
           /\ res.key.sk = derive_child_with_tag(arg.self, arg.index, <<>>).sk
           /\ res.key.chain_code =
                  derive_child_with_tag(arg.self, arg.index, <<>>).chain_code
           /\ arg.self.ctx = "Registered" =>
                  res.key = registered_derive_child_with_tag(
                                arg.self, arg.index, <<>>)
    /\ (op = "derive_child_with_tag" /\ arg.tag = <<>>) =>
           /\ res.key = derive_child(arg.self, arg.index)
           /\ res.key = registered_derive_child(arg.self, arg.index)

C10_Witness ==
    /\ op = "derive_child"
    /\ arg.self.ctx = "Adhoc"
    /\ res.key = derive_child_with_tag(arg.self, arg.index, <<>>)

\* C11: the 64 bytes of derive_child_cryptovalue(k, idx, tag) differ from
\* secret || chain_code of derive_child_with_tag(k, idx, tag), for every tag,
\* the empty one included, because the two PRF inputs differ; so the
\* cryptovalue at a path is never the key at the same path.
C11_CryptovalueNotNode ==
    /\ op \in DerivationOps =>
           LET k == derive_child_with_tag(arg.self, arg.index, arg.tag)
               v == derive_child_cryptovalue(arg.self, arg.index, arg.tag)
           IN  /\ v # Cat(k.sk, k.chain_code)
               /\ Invocation(v).input # Invocation(k.sk).input
               /\ op = "derive_child_cryptovalue" =>
                      res.bytes # Cat(k.sk, k.chain_code)
               /\ op # "derive_child_cryptovalue" =>
                      Cat(res.key.sk, res.key.chain_code) # v
    /\ (op = "cryptovalue_from_subpath" /\ res.kind = "Ok") =>
           LET k == from_subpath(arg.cs, arg.seed, arg.zip, arg.path).key
           IN  /\ res.bytes # Cat(k.sk, k.chain_code)
               /\ TakeBytes(res.bytes, 32) # k.sk
               /\ DropBytes(res.bytes, 32) # k.chain_code

C11_Witness ==
    /\ op = "derive_child_cryptovalue"
    /\ arg.tag = <<>>
    /\ ByteLen(res.bytes) = 64
    /\ res.bytes #
           Cat(derive_child_with_tag(arg.self, arg.index, <<>>).sk,
               derive_child_with_tag(arg.self, arg.index, <<>>).chain_code)

\* C12: the ad-hoc and the registered tree use different master-key
\* separators and different child-derivation PRF selectors, so for the same
\* valid (context string, seed) their master keys differ, and the same parent
\* material derives different children under the two contexts.
C12_TreesDisjoint ==
    /\ (op \in {"from_path", "from_subpath"} /\ res.kind = "Ok") =>
           LET a == arbitrary_master(arg.cs, arg.seed).key
               r == registered_master(arg.cs, arg.seed).key
           IN  /\ a.sk # r.sk
               /\ a.chain_code # r.chain_code
               /\ Invocation(a.sk).dom = MKG_DOMAIN("Adhoc")
               /\ Invocation(r.sk).dom = MKG_DOMAIN("Registered")
               /\ Invocation(a.sk).dom # Invocation(r.sk).dom
               /\ Invocation(a.sk).input = Invocation(r.sk).input
    /\ op \in {"derive_child", "derive_child_with_tag"} =>
           LET other == IF arg.self.ctx = "Adhoc" THEN "Registered" ELSE "Adhoc"
               twin  == [arg.self EXCEPT !.ctx = other]
               k     == derive_child_with_tag(twin, arg.index, arg.tag)
           IN  /\ k.sk # res.key.sk
               /\ k.chain_code # res.key.chain_code
               /\ Invocation(k.sk).dom # Invocation(res.key.sk).dom
               /\ Invocation(k.sk).input = Invocation(res.key.sk).input

C12_Witness ==
    /\ op = "from_path"
    /\ res.kind = "Ok"
    /\ arg.path = <<>>
    /\ res.key.sk = arbitrary_master(arg.cs, arg.seed).key.sk
    /\ registered_master(arg.cs, arg.seed).kind = "Ok"
    /\ res.key.sk # registered_master(arg.cs, arg.seed).key.sk

\* C13: for a fixed seed, context string and subpath, from_subpath called with
\* two different ZIP numbers returns different keys, because the first
\* derivation below the master feeds LE32(zip_number + 2^31) to the PRF.
C13_ZipNumberSeparates ==
    (op = "from_subpath" /\ res.kind = "Ok") =>
        \A z \in ZipProbes \ {arg.zip} :
            LET o  == from_subpath(arg.cs, arg.seed, z, arg.path)
                ra == SubtreeRoot(arg.cs, arg.seed, arg.zip).key
                rz == SubtreeRoot(arg.cs, arg.seed, z).key
            IN  /\ o.kind = "Ok"
                /\ o.key.sk # res.key.sk
                /\ o.key.chain_code # res.key.chain_code
                /\ to_le_bytes(hardened(u32_from_u16(z)).idx)
                       # to_le_bytes(hardened(u32_from_u16(arg.zip)).idx)
                /\ arg.path = <<>> =>
                       /\ Invocation(rz.sk).key = Invocation(ra.sk).key
                       /\ Invocation(rz.sk).input # Invocation(ra.sk).input
                       /\ Invocation(ra.sk).input =
                              Cat(registered_master(arg.cs, arg.seed).key.sk,
                                  to_le_bytes(U32(32768, arg.zip)))

C13_Witness ==
    /\ op = "from_subpath"
    /\ res.kind = "Ok"
    /\ arg.zip = 65535
    /\ arg.path # <<>>
    /\ res.key.sk # from_subpath(arg.cs, arg.seed, 0, arg.path).key.sk

\* C15: SeedFingerprint::from_seed returns None exactly when the seed is
\* shorter than 32 or longer than 252 bytes, Some (a 32-byte digest of the
\* length byte followed by the seed) for every length in 32..=252, and never
\* panics: an accepted length always fits a byte.
C15_FromSeed ==
    op = "from_seed" =>
        LET n == ByteLen(arg.seed)
        IN  /\ res.kind # "panic"
            /\ res.kind \in {"Some", "None"}
            /\ res.kind = "None" <=> (n < 32 \/ n > 252)
            /\ res.kind = "Some" <=> (32 <= n /\ n <= 252)
            /\ res.kind = "Some" =>
                   /\ ByteLen(res.bytes) = 32
                   /\ u8_try_from(n).kind = "Ok"
                   /\ Invocation(res.bytes).dom = "Zcash_HD_Seed_FP"
                   /\ Invocation(res.bytes).input = Cat(<<Lit(n)>>, arg.seed)

C15_Witness ==
    /\ op = "from_seed"
    /\ ByteLen(arg.seed) = 253
    /\ res.kind = "None"

\* C16: for every 32-byte fingerprint fp, the text Display produces (Bech32m
\* with prefix zip32seedfp) parses with FromStr to Ok with the same 32 bytes:
\* from_str(to_string(fp)) == fp.
C16_RoundTrip ==
    /\ op = "to_string" =>
           /\ res.kind = "Ok"
           /\ SubSeq(res.text, 1, Len(HRP) + 1) = HRP \o <<"1">>
           /\ from_str(res.text) = OkBytes(arg.hash)
           /\ to_bytes(from_str(res.text).bytes) = arg.hash
           /\ arg.hash = FromBytes(TestVectorFingerprint) =>
                  res.text = TestVectorString
    /\ op = "from_str" =>
           \A fp \in Fingerprints :
               arg.text = to_string(fp).text => res = OkBytes(fp)

C16_Witness ==
    /\ op = "from_str"
    /\ arg.text = TestVectorString
    /\ res = OkBytes(FromBytes(TestVectorFingerprint))

\* C17: from_str answers every bad text with its own error: a text that is
\* not valid Bech32m gives NotABech32mString; a valid Bech32m text whose
\* prefix is not zip32seedfp gives NotASeedFingerprint whatever the length of
\* its payload; a valid Bech32m text with the right prefix and a payload that
\* is not 32 bytes long gives InvalidLength; Ok comes only when the three
\* tests pass.
C17_FromStrErrors ==
    op = "from_str" =>
        LET checked == CheckedHrpstring_new(Bech32m, arg.text)
        IN  /\ arg.text \in Texts
            /\ \A c \in TextCases :
                   arg.text = c.text =>
                       IF c.class = "Ok" THEN res.kind = "Ok"
                       ELSE res = Err(c.class)
            /\ res.kind \in {"Ok", "Err"}
            /\ res.kind = "Err" =>
                   res.err \in {"NotABech32mString", "NotASeedFingerprint",
                                "InvalidLength"}
            /\ res.kind = "Ok" =>
                   /\ checked.kind = "Ok"
                   /\ Lowercase(checked.hrp) = HRP
                   /\ Len(byte_iter(checked)) = 32
                   /\ res.bytes = FromBytes(byte_iter(checked))
            /\ (res.kind = "Err" /\ res.err = "NotASeedFingerprint") =>
                   checked.kind = "Ok" /\ Lowercase(checked.hrp) # HRP
            /\ (res.kind = "Err" /\ res.err = "InvalidLength") =>
                   /\ checked.kind = "Ok"
                   /\ Lowercase(checked.hrp) = HRP
                   /\ Len(byte_iter(checked)) # 32

C17_Witness ==
    /\ op = "from_str"
    /\ res = Err("NotASeedFingerprint")
    /\ Len(byte_iter(CheckedHrpstring_new(Bech32m, arg.text))) = 33

\* the IKM the claim describes: [len(cs)] || cs || [len(seed)] || seed
ExpectedIkm(cs, seed) ==
    Cat(Cat(<<Lit(ByteLen(cs))>>, cs), Cat(<<Lit(ByteLen(seed))>>, seed))

\* C18: in both trees the input keying material of master-key generation is
\* the one-byte length of the context string, the context string, the
\* one-byte length of the seed and the seed, in this order, for every valid
\* (context string, seed).
C18_IkmLayout ==
    /\ (op = "from_path" /\ ValidLengths(arg.cs, arg.seed)) =>
           /\ res.kind = "Ok"
           /\ Invocation(arbitrary_master(arg.cs, arg.seed).key.sk).input
                  = ExpectedIkm(arg.cs, arg.seed)
           /\ arg.path = <<>> =>
                  /\ Invocation(res.key.sk).fn = "BLAKE2b-512"
                  /\ Invocation(res.key.sk).input = ExpectedIkm(arg.cs, arg.seed)
                  /\ ByteLen(Invocation(res.key.sk).input)
                         = ByteLen(arg.cs) + ByteLen(arg.seed) + 2
    /\ (op = "from_subpath" /\ ValidLengths(arg.cs, arg.seed)) =>
           /\ res.kind = "Ok"
           /\ Invocation(registered_master(arg.cs, arg.seed).key.sk).input
                  = ExpectedIkm(arg.cs, arg.seed)
           /\ arg.path = <<>> =>
                  \* the key of the PRF is the chain code of the master key
                  LET m == Invocation(Invocation(res.key.sk).key)
                  IN  /\ m.fn = "BLAKE2b-512"
                      /\ m.input = ExpectedIkm(arg.cs, arg.seed)
                      /\ ByteLen(m.input)
                             = ByteLen(arg.cs) + ByteLen(arg.seed) + 2

C18_Witness ==
    /\ op = "from_subpath"
    /\ res.kind = "Ok"
    /\ arg.path = <<>>
    /\ ByteLen(arg.cs) = 252
    /\ ByteLen(arg.seed) = 32
    /\ Invocation(Invocation(res.key.sk).key).input
           = <<Lit(252), Run(90, 252), Lit(32), Run(0, 32)>>

\* C19: AccountId::try_from(id) succeeds exactly when id < 2^31, and u32::from
\* then returns the same id; the conversion of an AccountId to a ChildIndex
\* never panics and yields the index id + 2^31, which is hardened.
C19_AccountId ==
    /\ op = "AccountId::try_from" =>
           /\ res.kind \in {"Ok", "Err"}
           /\ res.kind = "Ok" <=> arg.value.hi < 32768
           /\ res.kind = "Ok" =>
                  /\ res.idx = arg.value
                  /\ u32_from_AccountId(res.idx) = arg.value
                  /\ ChildIndex_from_AccountId(res.idx).kind = "Ok"
    /\ op = "u32::from(AccountId)" =>
           /\ res.kind = "Ok"
           /\ res.idx = arg.value
           /\ arg.value.hi < 32768
    /\ op = "ChildIndex::from(AccountId)" =>
           /\ res.kind = "Ok"
           /\ res.idx = U32(arg.value.hi + 32768, arg.value.lo)
           /\ res.idx.hi >= 32768
           /\ from_index(index(res.idx)).kind = "Some"

C19_Witness ==
    /\ op = "ChildIndex::from(AccountId)"
    /\ arg.value = U32(32767, 65535)
    /\ res.kind = "Ok"
    /\ res.idx = U32(65535, 65535)

\* the key k is the 64 bytes I split at 32: secret first, chain code second
SplitOf(k, I) ==
    /\ ByteLen(I) = 64
    /\ ByteLen(k.sk) = 32
    /\ ByteLen(k.chain_code) = 32
    /\ k.sk = TakeBytes(I, 32)
    /\ k.chain_code = DropBytes(I, 32)
    /\ k.sk = <<Blk(Invocation(I), 0, 32)>>
    /\ k.chain_code = <<Blk(Invocation(I), 32, 64)>>
    /\ Cat(k.sk, k.chain_code) = I

\* C20: master-key generation and child-key derivation split the 64-byte
\* output I of the hash or of the PRF the same way: bytes 0..32 are the
\* secret of the key, bytes 32..64 its chain code, and secret || chain_code
\* of the key is I.
C20_SplitOfI ==
    /\ (op = "from_path" /\ res.kind = "Ok" /\ arg.path = <<>>) =>
           SplitOf(res.key, Blake2b512(MKG_DOMAIN("Adhoc"),
                                       with_ikm(arg.cs, arg.seed).ikm))
    /\ (op = "from_subpath" /\ res.kind = "Ok") =>
           LET m == registered_master(arg.cs, arg.seed).key
           IN  /\ SplitOf(m, Blake2b512(MKG_DOMAIN("Registered"),
                                        with_ikm(arg.cs, arg.seed).ikm))
               /\ arg.path = <<>> =>
                      SplitOf(res.key,
                              ckdh_internal(m, U32(32768, arg.zip), 0, <<>>))
    /\ op \in {"derive_child", "derive_child_with_tag"} =>
           /\ SplitOf(res.key, ckdh_internal(arg.self, arg.index, 0, arg.tag))
           /\ Invocation(res.key.sk) = Invocation(res.key.chain_code)
           /\ Invocation(res.key.sk).fn = "PRF^expand"
           /\ node = res.key

C20_Witness ==
    /\ op = "derive_child_with_tag"
    /\ arg.tag # <<>>
    /\ res.key.sk[1].lo = 0 /\ res.key.sk[1].hi = 32
    /\ res.key.chain_code[1].lo = 32 /\ res.key.chain_code[1].hi = 64
    /\ Cat(res.key.sk, res.key.chain_code)
           = ckdh_internal(arg.self, arg.index, 0, arg.tag)

\* the 11 bytes of the number n < 2^31, least significant byte first
LittleEndian88(n) ==
    [k \in 1..11 |-> IF k <= 4 THEN (n \div (256 ^ (k - 1))) % 256 ELSE 0]

AllOnes == [k \in 1..11 |-> 255]

\* b is a + 1 as little-endian numbers: the trailing 0xff bytes of a are 0
\* in b, the first other byte is one larger, the bytes above are the same
IsSuccessor(a, b) ==
    \E k \in 1..11 :
        /\ \A j \in 1..(k - 1) : a[j] = 255 /\ b[j] = 0
        /\ a[k] < 255 /\ b[k] = a[k] + 1
        /\ \A j \in (k + 1)..11 : b[j] = a[j]

\* C21: starting from DiversifierIndex::new(), after n successful calls of
\* increment the 11 bytes hold n as an 88-bit little-endian integer;
\* increment returns Ok for every value below 2^88 - 1, leaving the next
\* integer, and returns DiversifierIndexOverflowError exactly when the index
\* is all 0xff bytes.
C21_IncrementCounts ==
    /\ (dindex # NoDi /\ dindex_origin.start = DiversifierIndex_new) =>
           dindex = LittleEndian88(dindex_origin.n)
    /\ op = "DiversifierIndex::new" =>
           dindex = [k \in 1..11 |-> 0] /\ dindex_origin.n = 0
    /\ op = "increment" =>
           /\ res.kind \in {"Ok", "Err"}
           /\ res.kind = "Err" <=> arg.di = AllOnes
           /\ res.kind = "Ok" <=> (\E k \in 1..11 : arg.di[k] # 255)
           /\ res.kind = "Err" => res.err = "DiversifierIndexOverflowError"
           /\ res.kind = "Ok" => IsSuccessor(arg.di, dindex)

C21_Witness ==
    /\ op = "increment"
    /\ res.kind = "Ok"
    /\ dindex_origin.start = DiversifierIndex_new
    /\ dindex_origin.n = 256
    /\ dindex = <<0, 1, 0, 0, 0, 0, 0, 0, 0, 0, 0>>

\* C22: u32::try_from reads a DiversifierIndex as an 88-bit little-endian
\* integer: it returns Ok(v) exactly when bytes 4..11 are all zero, with v
\* the number in bytes 0..4, and Err otherwise; for every u32 j,
\* u32::try_from(DiversifierIndex::from(j)) == Ok(j).
C22_DiversifierIndexToU32 ==
    /\ op = "u32::try_from(DiversifierIndex)" =>
           /\ res.kind \in {"Ok", "Err"}
           /\ res.kind = "Ok" <=> (\A k \in 5..11 : arg.di[k] = 0)
           /\ res.kind = "Ok" =>
                  /\ res.idx.lo = arg.di[1] + 256 * arg.di[2]
                  /\ res.idx.hi = arg.di[3] + 256 * arg.di[4]
                  /\ DiversifierIndex_from_u32(res.idx) = arg.di
           /\ dindex = arg.di
           /\ \A j \in U32Samples :
                  (dindex_origin.n = 0
                       /\ dindex_origin.start = DiversifierIndex_from_u32(j)) =>
                      res.kind = "Ok" /\ res.idx = j
    /\ op = "DiversifierIndex::from(u32)" =>
           /\ \A k \in 5..11 : dindex[k] = 0
           /\ u32_try_from_DiversifierIndex(dindex)
                  = [kind |-> "Ok", v |-> arg.value]

C22_Witness ==
    /\ op = "u32::try_from(DiversifierIndex)"
    /\ dindex_origin.n = 1
    /\ arg.di = <<0, 0, 0, 0, 1, 0, 0, 0, 0, 0, 0>>
    /\ res.kind = "Err"

C24_ErrorOrder ==
    op \in {"from_subpath", "cryptovalue_from_subpath"} =>
        LET csBad   == ByteLen(arg.cs) = 0 \/ ByteLen(arg.cs) > 252
            seedBad == ByteLen(arg.seed) < 32 \/ ByteLen(arg.seed) > 252
        IN  /\ csBad => res = Err("ContextStringInvalid")
            /\ (~csBad /\ seedBad) => res = Err("SeedInvalid")
            /\ res = Err("SubpathEmpty") <=>
                   /\ op = "cryptovalue_from_subpath"
                   /\ ~csBad /\ ~seedBad
                   /\ arg.path = <<>>
            /\ op = "from_subpath" =>
                   /\ res # Err("SubpathEmpty")
                   /\ (~csBad /\ ~seedBad) => res.kind = "Ok"
            /\ (op = "cryptovalue_from_subpath"
                    /\ ~csBad /\ ~seedBad /\ arg.path # <<>>) =>
                   res.kind = "Ok"

C24_Witness ==
    /\ op = "cryptovalue_from_subpath"
    /\ ByteLen(arg.cs) = 253
    /\ ByteLen(arg.seed) = 31
    /\ arg.path = <<>>
    /\ res = Err("ContextStringInvalid")

\* the byte string that master-key generation of tree C hashes
IkmOf(C, cs, seed) ==
    Invocation((IF C = "Adhoc" THEN arbitrary_master(cs, seed)
                ELSE registered_master(cs, seed)).key.sk).input

\* C25: the IKM encoding [len(cs)] || cs || [len(seed)] || seed is injective
\* on valid inputs: two different pairs (context string, seed) with lengths
\* in 1..=252 and 32..=252 never give the same byte string, so they never
\* hash the same input within one tree.
C25_IkmInjective ==
    (op \in {"from_path", "from_subpath"} /\ ValidLengths(arg.cs, arg.seed)
         /\ arg.path = <<>>) =>
        LET C   == IF op = "from_path" THEN "Adhoc" ELSE "Registered"
            ikm == IkmOf(C, arg.cs, arg.seed)
        IN  \A p \in IkmProbes :
                (ValidLengths(p[1], p[2]) /\ p # <<arg.cs, arg.seed>>) =>
                    /\ IkmOf(C, p[1], p[2]) # ikm
                    /\ op = "from_path" =>
                           /\ arbitrary_master(p[1], p[2]).key.sk # res.key.sk
                           /\ arbitrary_master(p[1], p[2]).key.chain_code
                                  # res.key.chain_code

C25_Witness ==
    /\ op = "from_path"
    /\ res.kind = "Ok"
    /\ arg.path = <<>>
    /\ arg.cs = Bytes(1, 90)
    /\ arg.seed = Bytes(252, 0)
    /\ <<FromBytes(<<90, 0>>), Bytes(251, 0)>> \in IkmProbes
    /\ Cat(FromBytes(<<90, 0>>), Bytes(251, 0)) = Cat(arg.cs, arg.seed)
    /\ IkmOf("Adhoc", FromBytes(<<90, 0>>), Bytes(251, 0))
           # IkmOf("Adhoc", arg.cs, arg.seed)

\* C26: for a fixed parent key the PRF input of child derivation is injective
\* in (index, full-width flag, tag): two calls among derive_child,
\* derive_child_with_tag and derive_child_cryptovalue on the same parent that
\* differ in the index, in the tag or in being full-width never give the same
\* PRF input.
C26_PrfInputInjective ==
    op \in DerivationOps =>
        LET lead == IF op = "derive_child_cryptovalue" THEN 1 ELSE 0
            \* what follows the 32 bytes of the parent's secret
            rest == DropBytes(LastPrfInput, 32)
        IN  /\ LastPrfInput
                   = Invocation(ckdh_internal(arg.self, arg.index,
                                              lead, arg.tag)).input
            /\ TakeBytes(LastPrfInput, 32) = arg.self.sk
            \* the same index and tag with the other lead byte
            /\ DropBytes(Invocation(ckdh_internal(arg.self, arg.index,
                                                  1 - lead, arg.tag)).input,
                         32) # rest
            \* every probe, for the children of the root of the tree
            /\ Len(origin.path) <= 1 =>
                   \A i \in IndexProbes, l \in {0, 1}, t \in TagProbes :
                       (i # arg.index \/ l # lead \/ t # arg.tag) =>
                           DropBytes(Invocation(ckdh_internal(arg.self, i,
                                                              l, t)).input,
                                     32) # rest

C26_Witness ==
    /\ op = "derive_child_cryptovalue"
    /\ arg.tag = <<>>
    /\ arg.index \in IndexProbes
    /\ FromBytes(<<1>>) \in TagProbes
    /\ ByteLen(LastPrfInput) = 37
    /\ ByteLen(Invocation(ckdh_internal(arg.self, arg.index, 0,
                                        FromBytes(<<1>>))).input) = 38

====
